---- MODULE Spec2Model ----
(***************************************************************************)
(* Model of ghostferry's binlog DML event translator (dml_events.go) and   *)
(* of the replica catch-up coordinator (WaitUntilReplicaIsCaughtUpToMaster)*)
(*                                                                         *)
(* Go integers are modelled as bit patterns: a sequence of bytes, most     *)
(* significant first, of the width of the Go type.  A signed value is its  *)
(* two's complement pattern.  Go strings and byte buffers are sequences of *)
(* one-character strings, and so is every SQL text.                        *)
(***************************************************************************)
EXTENDS Integers, Sequences, FiniteSets, TLC

VARIABLES
    table,        \* the *schema.Table handed to NewBinlogDMLEvents
    ev0,          \* history: the binlog event as the caller built it
    ev,           \* the caller's binlog event (its rows are rewritten in place)
    dispatched,   \* NewBinlogDMLEvents has returned
    res,          \* what NewBinlogDMLEvents returned
    call,         \* the last PK() / AsSQLString() call on a returned statement
    pc,           \* Wait(): position of the calling goroutine
    targetMasterPos,            \* w.targetMasterPos
    currentReplicatedMasterPos, \* IsCaughtUp's local
    try,          \* WithRetries: number of attempts made by the running wrapper
    err,          \* WithRetries: error of the last attempt ("" is nil)
    waitErr,      \* what Wait() returned ("" is nil)
    replicaPos,   \* environment: what the replica's heartbeat row holds
    polled,       \* history: this Wait() has read the replica's position
    marked        \* history: the position the master read of this Wait() returned

dmlVars  == <<table, ev0, ev, dispatched, res, call>>
waitVars == <<pc, targetMasterPos, currentReplicatedMasterPos, try, err, waitErr,
              polled, marked>>
vars     == <<table, ev0, ev, dispatched, res, call, pc, targetMasterPos,
              currentReplicatedMasterPos, try, err, waitErr, replicaPos, polled, marked>>

-----------------------------------------------------------------------------
(* Bounds *)

\* most rows in one binlog event
MaxRows == 2
\* most before/after pairs in one UPDATE event of the pair specification
MaxPairs == 2
\* binlog files are numbered 1..MaxFile
MaxFile == 2
\* binlog offsets are 0..MaxOffset
MaxOffset == 1

-----------------------------------------------------------------------------
(* Fixed-width integer arithmetic on byte sequences (most significant first) *)

Range(s) == {s[i] : i \in 1..Len(s)}

IsZero(l) == \A i \in 1..Len(l) : l[i] = 0

Rep(n, x) == [i \in 1..n |-> x]

\* the top bit of the pattern: the sign of a signed Go integer
IsNegative(l) == Len(l) > 0 /\ l[1] >= 128

\* int64(v) of a narrower signed v: sign extension
SignExtend(l, n) == Rep(n - Len(l), IF IsNegative(l) THEN 255 ELSE 0) \o l

\* uint64(v) of a narrower unsigned v: zero extension
ZeroExtend(l, n) == Rep(n - Len(l), 0) \o l

\* l \div 10 followed by one last element, l % 10
RECURSIVE DivTen(_, _, _)
DivTen(l, i, rem) ==
    IF i > Len(l) THEN <<rem>>
    ELSE LET cur == rem * 256 + l[i]
         IN  <<cur \div 10>> \o DivTen(l, i + 1, cur % 10)

\* l + c for a carry c, with the carry out as the first element
RECURSIVE AddCarry(_, _)
AddCarry(l, c) ==
    IF Len(l) = 0 THEN <<c>>
    ELSE LET cur  == l[Len(l)] + c
             rest == AddCarry(SubSeq(l, 1, Len(l) - 1), cur \div 256)
         IN  Append(rest, cur % 256)

\* -l in two's complement, same width
Negate(l) == Tail(AddCarry([i \in 1..Len(l) |-> 255 - l[i]], 1))

\* l * 10 + d, with the overflow out of the width as the first element
RECURSIVE MulTenAdd(_, _)
MulTenAdd(l, d) ==
    IF Len(l) = 0 THEN <<d>>
    ELSE LET cur  == l[Len(l)] * 10 + d
             rest == MulTenAdd(SubSeq(l, 1, Len(l) - 1), cur \div 256)
         IN  Append(rest, cur % 256)

DigitChars == <<"0", "1", "2", "3", "4", "5", "6", "7", "8", "9">>

IsDigit(c) == c \in Range(DigitChars)

DigitValue(c) == CHOOSE d \in 0..9 : DigitChars[d + 1] = c

-----------------------------------------------------------------------------
(* Cells of a row: Go interface{} values *)

SignedTypes   == {"int8", "int16", "int32", "int64", "int"}
UnsignedTypes == {"uint8", "uint16", "uint32", "uint64", "uint"}

\* the unsigned Go type of the same width
UnsignedOf(t) ==
    CASE t = "int64" -> "uint64"
      [] t = "int32" -> "uint32"
      [] t = "int16" -> "uint16"
      [] t = "int8"  -> "uint8"
      [] t = "int"   -> "uint"
      [] OTHER       -> t

NilCell        == [t |-> "nil",    b |-> <<>>, s |-> <<>>, isnil |-> TRUE]
IntCell(t, l)  == [t |-> t,        b |-> l,    s |-> <<>>, isnil |-> FALSE]
BytesCell(s)   == [t |-> "[]byte", b |-> <<>>, s |-> s,    isnil |-> FALSE]
NilBytesCell   == [t |-> "[]byte", b |-> <<>>, s |-> <<>>, isnil |-> TRUE]
StringCell(s)  == [t |-> "string", b |-> <<>>, s |-> s,    isnil |-> FALSE]
BoolCell(v)    == [t |-> "bool",   b |-> <<IF v THEN 1 ELSE 0>>, s |-> <<>>, isnil |-> FALSE]

-----------------------------------------------------------------------------
(* Tables *)

Column(name, unsigned) == [Name |-> name, IsUnsigned |-> unsigned]

\* PKColumns holds Go (0-based) column indices
Table(schema, name, columns, pk) ==
    [Schema |-> schema, Name |-> name, Columns |-> columns, PKColumns |-> pk]

-----------------------------------------------------------------------------
(* Literal escaping *)

\* the string constants of the renderer, as characters
TxtNull == <<"N", "U", "L", "L">>
TxtIsNull == <<" ", "I", "S", " ", "N", "U", "L", "L">>
TxtAnd == <<" ", "A", "N", "D", " ">>
TxtBinary == <<"_", "b", "i", "n", "a", "r", "y", "'">>
TxtInsert == <<"I", "N", "S", "E", "R", "T", " ", "I", "G", "N", "O", "R", "E", " ", "I", "N", "T", "O", " ">>
TxtValues == <<" ", "V", "A", "L", "U", "E", "S", " ", "(">>
TxtUpdate == <<"U", "P", "D", "A", "T", "E", " ">>
TxtSet == <<" ", "S", "E", "T", " ">>
TxtWhere == <<" ", "W", "H", "E", "R", "E", " ">>
TxtDelete == <<"D", "E", "L", "E", "T", "E", " ", "F", "R", "O", "M", " ">>

\* strconv.AppendUint(buffer, v, 10) on an empty buffer: the base-10 digits of v
RECURSIVE UintDigits(_)
UintDigits(l) ==
    IF IsZero(l) THEN <<>>
    ELSE LET qr == DivTen(l, 1, 0)
         IN  UintDigits(SubSeq(qr, 1, Len(l))) \o <<DigitChars[qr[Len(qr)] + 1]>>

FormatUint(l) == IF IsZero(l) THEN <<"0">> ELSE UintDigits(l)

\* strconv.AppendInt(buffer, v, 10) on an empty buffer
FormatInt(l) == IF IsNegative(l) THEN <<"-">> \o FormatUint(Negate(l)) ELSE FormatUint(l)

\* a mutant: only the untyped nil is taken for NULL
isNilValueUntypedOnly(value) == value.t = "nil"

isNilValue(value) ==
    \/ value.t = "nil"
    \/ value.t = "[]byte" /\ value.isnil

Uint64Value(value) ==
    IF value.t \in UnsignedTypes
    THEN [v |-> ZeroExtend(value.b, 8), ok |-> TRUE]
    ELSE [v |-> Rep(8, 0), ok |-> FALSE]

Int64Value(value) ==
    IF value.t \in SignedTypes
    THEN [v |-> SignExtend(value.b, 8), ok |-> TRUE]
    ELSE [v |-> Rep(8, 0), ok |-> FALSE]

\* every ' of the value doubled
RECURSIVE DoubleQuotes(_)
DoubleQuotes(s) ==
    IF Len(s) = 0 THEN <<>>
    ELSE (IF Head(s) = "'" THEN <<"'", "'">> ELSE <<Head(s)>>) \o DoubleQuotes(Tail(s))

appendEscapedString(buffer, value) == buffer \o <<"'">> \o DoubleQuotes(value) \o <<"'">>

appendEscapedBuffer(buffer, value) == buffer \o TxtBinary \o DoubleQuotes(value) \o <<"'">>

\* the fragment that stands for panic("unsupported type ...") in a buffer
PanicMark == "panic: unsupported type"

appendEscapedValue(buffer, value) ==
    IF isNilValue(value) THEN buffer \o TxtNull
    ELSE IF Uint64Value(value).ok THEN buffer \o FormatUint(Uint64Value(value).v)
    ELSE IF Int64Value(value).ok THEN buffer \o FormatInt(Int64Value(value).v)
    ELSE CASE value.t = "string" -> appendEscapedString(buffer, value.s)
           [] value.t = "[]byte" -> appendEscapedBuffer(buffer, value.s)
           [] value.t = "bool"   -> buffer \o (IF value.b[1] = 1 THEN <<"1">> ELSE <<"0">>)
           [] OTHER              -> buffer \o <<PanicMark>>

RECURSIVE ListForValues(_, _, _)
ListForValues(buffer, values, i) ==
    IF i > Len(values) THEN buffer
    ELSE ListForValues(
             appendEscapedValue(IF i > 1 THEN buffer \o <<",">> ELSE buffer, values[i]),
             values, i + 1)

buildStringListForValues(values) == ListForValues(<<>>, values, 1)

WhereFragment(buffer, column, value) ==
    IF isNilValue(value)
    THEN buffer \o column \o TxtIsNull
    ELSE appendEscapedValue(buffer \o column \o <<"=">>, value)

RECURSIVE MapForWhere(_, _, _, _)
MapForWhere(buffer, columns, values, i) ==
    IF i > Len(values) THEN buffer
    ELSE MapForWhere(
             WhereFragment(IF i > 1 THEN buffer \o TxtAnd ELSE buffer,
                           columns[i], values[i]),
             columns, values, i + 1)

buildStringMapForWhere(columns, values) == MapForWhere(<<>>, columns, values, 1)

RECURSIVE MapForSet(_, _, _, _)
MapForSet(buffer, columns, values, i) ==
    IF i > Len(values) THEN buffer
    ELSE MapForSet(
             appendEscapedValue(
                 (IF i > 1 THEN buffer \o <<",">> ELSE buffer) \o columns[i] \o <<"=">>,
                 values[i]),
             columns, values, i + 1)

buildStringMapForSet(columns, values) == MapForSet(<<>>, columns, values, 1)

\* the backtick character (the module's string syntax has none)
Backtick == "[backtick]"

\* every backtick of the identifier doubled
RECURSIVE DoubleBackticks(_)
DoubleBackticks(s) ==
    IF Len(s) = 0 THEN <<>>
    ELSE (IF Head(s) = Backtick THEN <<Backtick, Backtick>> ELSE <<Head(s)>>)
         \o DoubleBackticks(Tail(s))

quoteField(field) == <<Backtick>> \o DoubleBackticks(field) \o <<Backtick>>

QuotedTableNameFromString(database, tableName) ==
    quoteField(database) \o <<".">> \o quoteField(tableName)

\* strings.Join(elems, ",")
RECURSIVE ListJoin(_)
ListJoin(elems) ==
    IF Len(elems) = 0 THEN <<>>
    ELSE IF Len(elems) = 1 THEN elems[1]
    ELSE elems[1] \o <<",">> \o ListJoin(Tail(elems))

-----------------------------------------------------------------------------
(* Intersection projection *)

\* "" is a nil error
verifyValuesHasTheSameLengthAsColumns(tbl, values) ==
    IF Len(tbl.Columns) # Len(values) THEN "width" ELSE ""

\* the inner loop: does some intersection column from j on carry the name (break)
RECURSIVE InIntersection(_, _, _)
InIntersection(name, intersection, j) ==
    IF j > Len(intersection.Columns) THEN FALSE
    ELSE IF name = intersection.Columns[j].Name THEN TRUE
    ELSE InIntersection(name, intersection, j + 1)

\* a mutant: the loops nested the other way round, the intersection's order
RECURSIVE ByIntersectionOrder(_, _, _)
ByIntersectionOrder(tbl, intersection, j) ==
    IF j > Len(intersection.Columns) THEN <<>>
    ELSE SelectSeq([i \in 1..Len(tbl.Columns) |-> i],
                   LAMBDA i : tbl.Columns[i].Name = intersection.Columns[j].Name)
         \o ByIntersectionOrder(tbl, intersection, j + 1)

intersectedColumnsSwapped(tbl, intersection, colIdx) ==
    ByIntersectionOrder(tbl, intersection, colIdx)

\* the outer loop from source column colIdx on: the matched source indices
RECURSIVE intersectedColumns(_, _, _)
intersectedColumns(tbl, intersection, colIdx) ==
    IF colIdx > Len(tbl.Columns) THEN <<>>
    ELSE (IF InIntersection(tbl.Columns[colIdx].Name, intersection, 1)
          THEN <<colIdx>> ELSE <<>>)
         \o intersectedColumns(tbl, intersection, colIdx + 1)

\* the second loop: every row image checked, then projected; stops at the first error
RECURSIVE intersectedValueList(_, _, _, _)
intersectedValueList(tbl, idx, valuesToVerify, k) ==
    IF k > Len(valuesToVerify) THEN [err |-> "", values |-> <<>>]
    ELSE IF verifyValuesHasTheSameLengthAsColumns(tbl, valuesToVerify[k]) # ""
    THEN [err |-> "width", values |-> <<>>]
    ELSE LET rest == intersectedValueList(tbl, idx, valuesToVerify, k + 1)
         IN  IF rest.err # "" THEN rest
             ELSE [err |-> "",
                   values |-> <<[i \in 1..Len(idx) |-> valuesToVerify[k][idx[i]]]>>
                              \o rest.values]

loadColumnsAndValuesInIntersection(tbl, intersection, valuesToVerify) ==
    IF Len(tbl.Columns) = 0 \/ Len(intersection.Columns) = 0
    THEN [panic |-> TRUE, err |-> "", columns |-> <<>>, values |-> <<>>]
    ELSE LET idx == intersectedColumns(tbl, intersection, 1)
             vl  == intersectedValueList(tbl, idx, valuesToVerify, 1)
         IN  [panic   |-> FALSE,
              err     |-> vl.err,
              columns |-> IF vl.err # "" THEN <<>>
                          ELSE [i \in 1..Len(idx) |-> quoteField(tbl.Columns[idx[i]].Name)],
              values  |-> vl.values]

-----------------------------------------------------------------------------
(* Statement objects *)

\* a nil RowData is the empty row
NoRow == <<>>

\* the outcome of a call: "ok", "err" (a returned error) or "panic" (an abort)
Outcome(kind, error, v) == [kind |-> kind, err |-> error, v |-> v]

BinlogInsertEvent(tbl, row) ==
    [kind |-> "insert", oldValues |-> NoRow, newValues |-> row, table |-> tbl]

BinlogUpdateEvent(tbl, old, new) ==
    [kind |-> "update", oldValues |-> old, newValues |-> new, table |-> tbl]

BinlogDeleteEvent(tbl, row) ==
    [kind |-> "delete", oldValues |-> row, newValues |-> NoRow, table |-> tbl]

OldValues(e) == e.oldValues

NewValues(e) == e.newValues

\* strconv.ParseUint(s, 10, 64) from the digits read so far; <<>> is an error
RECURSIVE ParseDigits(_, _, _)
ParseDigits(s, i, acc) ==
    IF i > Len(s) THEN <<acc>>
    ELSE IF ~IsDigit(s[i]) THEN <<>>
    ELSE LET next == MulTenAdd(acc, DigitValue(s[i]))
         IN  IF Head(next) # 0 THEN <<>>
             ELSE ParseDigits(s, i + 1, Tail(next))

ParseUint(s) ==
    IF Len(s) = 0 THEN Outcome("err", "syntax", Rep(8, 0))
    ELSE LET r == ParseDigits(s, 1, Rep(8, 0))
         IN  IF Len(r) = 0 THEN Outcome("err", "parse", Rep(8, 0))
             ELSE Outcome("ok", "", r[1])

\* reflect.ValueOf(x).Int(): defined on the signed integer kinds, a panic on any other
ReflectInt(value) ==
    IF value.t \in SignedTypes
    THEN Outcome("ok", "", SignExtend(value.b, 8))
    ELSE Outcome("panic", "", Rep(8, 0))

\* colIdx is a Go (0-based) index
GetUint64(r, colIdx) ==
    IF r[colIdx + 1].t = "[]byte"
    THEN ParseUint(r[colIdx + 1].s)
    ELSE LET signedInt == ReflectInt(r[colIdx + 1])
         IN  IF signedInt.kind = "panic" THEN signedInt
             ELSE IF IsNegative(signedInt.v)
             THEN Outcome("err", "negative", Rep(8, 0))
             ELSE Outcome("ok", "", signedInt.v)

pkFromEventData(e, rowData) ==
    IF verifyValuesHasTheSameLengthAsColumns(e.table, rowData) # ""
    THEN Outcome("err", "width", Rep(8, 0))
    ELSE GetUint64(rowData, e.table.PKColumns[1])

PK(e) ==
    IF e.kind = "delete" THEN pkFromEventData(e, e.oldValues)
    ELSE pkFromEventData(e, e.newValues)

Aborted(query) == PanicMark \in Range(query)

InsertAsSQLString(e, intersection) ==
    LET l == loadColumnsAndValuesInIntersection(e.table, intersection, <<e.newValues>>)
    IN  IF l.panic THEN Outcome("panic", "", <<>>)
        ELSE IF l.err # "" THEN Outcome("err", l.err, <<>>)
        ELSE LET query == TxtInsert
                          \o QuotedTableNameFromString(intersection.Schema, intersection.Name)
                          \o <<" ", "(">> \o ListJoin(l.columns) \o <<")">>
                          \o TxtValues \o buildStringListForValues(l.values[1])
                          \o <<")">>
             IN  IF Aborted(query) THEN Outcome("panic", "", <<>>)
                 ELSE Outcome("ok", "", query)

UpdateAsSQLString(e, intersection) ==
    LET l == loadColumnsAndValuesInIntersection(e.table, intersection,
                                                <<e.oldValues, e.newValues>>)
    IN  IF l.panic THEN Outcome("panic", "", <<>>)
        ELSE IF l.err # "" THEN Outcome("err", l.err, <<>>)
        ELSE LET query == TxtUpdate
                          \o QuotedTableNameFromString(intersection.Schema, intersection.Name)
                          \o TxtSet \o buildStringMapForSet(l.columns, l.values[2])
                          \o TxtWhere \o buildStringMapForWhere(l.columns, l.values[1])
             IN  IF Aborted(query) THEN Outcome("panic", "", <<>>)
                 ELSE Outcome("ok", "", query)

DeleteAsSQLString(e, intersection) ==
    LET l == loadColumnsAndValuesInIntersection(e.table, intersection, <<e.oldValues>>)
    IN  IF l.panic THEN Outcome("panic", "", <<>>)
        ELSE IF l.err # "" THEN Outcome("err", l.err, <<>>)
        ELSE LET query == TxtDelete
                          \o QuotedTableNameFromString(intersection.Schema, intersection.Name)
                          \o TxtWhere \o buildStringMapForWhere(l.columns, l.values[1])
             IN  IF Aborted(query) THEN Outcome("panic", "", <<>>)
                 ELSE Outcome("ok", "", query)

AsSQLString(e, intersection) ==
    CASE e.kind = "insert" -> InsertAsSQLString(e, intersection)
      [] e.kind = "update" -> UpdateAsSQLString(e, intersection)
      [] OTHER             -> DeleteAsSQLString(e, intersection)

-----------------------------------------------------------------------------
(* Construction of the statements *)

EventTypes == {"WRITE_ROWS_EVENTv1", "WRITE_ROWS_EVENTv2",
               "UPDATE_ROWS_EVENTv1", "UPDATE_ROWS_EVENTv2",
               "DELETE_ROWS_EVENTv1", "DELETE_ROWS_EVENTv2"}

\* a rows event of another type (the v0 variants, for one)
OtherEventTypes == {"WRITE_ROWS_EVENTv0"}

\* what a constructor or the dispatch returns: list is "nil" or "list"
Returned(list, events, error) == [list |-> list, events |-> events, err |-> error]

NewBinlogInsertEvents(tbl, rows) ==
    Returned("list", [i \in 1..Len(rows) |-> BinlogInsertEvent(tbl, rows[i])], "")

NewBinlogDeleteEvents(tbl, rows) ==
    Returned("list", [i \in 1..Len(rows) |-> BinlogDeleteEvent(tbl, rows[i])], "")

\* a mutant: the new image taken from the row itself, not from the one after it
NewBinlogUpdateEventsSameRow(tbl, rows) ==
    Returned("list",
             [k \in 1..(Len(rows) \div 2) |->
                 BinlogUpdateEvent(tbl, rows[2 * k - 1], rows[2 * k - 1])], "")

\* i is the Go loop index; rows[i + 2] is rowsEvent.Rows[i+1], out of range when the
\* row count is odd
NewBinlogUpdateEvents(tbl, rows) ==
    IF Len(rows) % 2 = 1 THEN Returned("panic", <<>>, "")
    ELSE Returned("list",
                  [k \in 1..(Len(rows) \div 2) |->
                      LET i == 2 * (k - 1)
                      IN  BinlogUpdateEvent(tbl, rows[i + 1], rows[i + 2])], "")

\* a mutant: every signed cell converted with uint64(v)
NormalizeCellToUint64(v) ==
    IF v.t \in SignedTypes THEN [v EXCEPT !.t = "uint64", !.b = SignExtend(v.b, 8)] ELSE v

\* the switch on the cell's type in a column flagged unsigned
NormalizeCell(v) ==
    IF v.t \in SignedTypes THEN [v EXCEPT !.t = UnsignedOf(v.t)] ELSE v

NormalizeRow(tbl, row) ==
    [i \in 1..Len(row) |->
        IF tbl.Columns[i].IsUnsigned THEN NormalizeCell(row[i]) ELSE row[i]]

\* a mutant: only the first row's width is checked
RECURSIVE CheckFirstRowOnly(_, _, _)
CheckFirstRowOnly(tbl, rows, r) ==
    IF r > Len(rows) THEN [rows |-> rows, err |-> ""]
    ELSE IF r = 1 /\ Len(rows[r]) # Len(tbl.Columns) THEN [rows |-> rows, err |-> "width"]
    ELSE CheckFirstRowOnly(tbl,
             [rows EXCEPT ![r] = [i \in 1..Len(rows[r]) |->
                 IF i <= Len(tbl.Columns) /\ tbl.Columns[i].IsUnsigned
                 THEN NormalizeCell(rows[r][i]) ELSE rows[r][i]]], r + 1)

\* a mutant: a row is rewritten before its width is checked
RECURSIVE RewriteBeforeCheck(_, _, _)
RewriteBeforeCheck(tbl, rows, r) ==
    IF r > Len(rows) THEN [rows |-> rows, err |-> ""]
    ELSE LET rewritten == [rows EXCEPT ![r] = [i \in 1..Len(rows[r]) |->
                 IF i <= Len(tbl.Columns) /\ tbl.Columns[i].IsUnsigned
                 THEN NormalizeCell(rows[r][i]) ELSE rows[r][i]]]
         IN  IF Len(rows[r]) # Len(tbl.Columns) THEN [rows |-> rewritten, err |-> "width"]
             ELSE RewriteBeforeCheck(tbl, rewritten, r + 1)

\* the first loop from row r on: the rows as it leaves them, and whether it returned
\* the width error
RECURSIVE CheckAndNormalize(_, _, _)
CheckAndNormalize(tbl, rows, r) ==
    IF r > Len(rows) THEN [rows |-> rows, err |-> ""]
    ELSE IF Len(rows[r]) # Len(tbl.Columns) THEN [rows |-> rows, err |-> "width"]
    ELSE CheckAndNormalize(tbl, [rows EXCEPT ![r] = NormalizeRow(tbl, rows[r])], r + 1)

NewBinlogDMLEvents(tbl, event) ==
    LET looped == CheckAndNormalize(tbl, event.Rows, 1)
        after  == [event EXCEPT !.Rows = looped.rows]
    IN  IF looped.err # ""
        THEN [ev |-> after, ret |-> Returned("nil", <<>>, looped.err)]
        ELSE [ev  |-> after,
              ret |-> CASE event.EventType \in {"WRITE_ROWS_EVENTv1", "WRITE_ROWS_EVENTv2"}
                           -> NewBinlogInsertEvents(tbl, after.Rows)
                        [] event.EventType \in {"DELETE_ROWS_EVENTv1", "DELETE_ROWS_EVENTv2"}
                           -> NewBinlogDeleteEvents(tbl, after.Rows)
                        [] event.EventType \in {"UPDATE_ROWS_EVENTv1", "UPDATE_ROWS_EVENTv2"}
                           -> NewBinlogUpdateEvents(tbl, after.Rows)
                        [] OTHER -> Returned("nil", <<>>, "unrecognized")]

-----------------------------------------------------------------------------
(* The inputs the translator is run on *)

ColId   == <<"i", "d">>
ColName == <<"n", "a", "m", "e">>
ColX    == <<"x">>

\* the source table s.t (id, name), each column signed or unsigned, the key on id
SourceTables ==
    {Table(<<"s">>, <<"t">>, <<Column(ColId, u1), Column(ColName, u2)>>, <<0>>) :
        u1 \in BOOLEAN, u2 \in BOOLEAN}

\* the target-side tables s2.t2 an intersection is taken with
Intersections ==
    {Table(<<"s", "2">>, <<"t", "2">>, [i \in 1..Len(names) |-> Column(names[i], FALSE)], <<0>>) :
        names \in {<<ColId, ColName>>, <<ColName, ColId>>, <<ColId>>, <<ColName, ColX>>,
                   <<ColX>>, <<>>}}

NoTable == Table(<<>>, <<>>, <<>>, <<>>)

\* rows of the table's width: signed cells of every width, unsigned cells, decimal
\* and other byte buffers, the NULL shapes, a string and a bool
FullRows ==
    {<<IntCell("int64", Rep(8, 255)),    NilCell>>,
     <<IntCell("int8", <<128>>),         NilBytesCell>>,
     <<IntCell("int16", <<255, 254>>),   BytesCell(<<>>)>>,
     <<IntCell("int32", Rep(4, 255)),    StringCell(<<"o", "'", "b">>)>>,
     <<IntCell("int64", Rep(7, 0) \o <<7>>), IntCell("int32", Rep(4, 255))>>,
     <<BytesCell(<<"1", "2">>),          IntCell("uint8", <<200>>)>>,
     <<BytesCell(<<"1", "x">>),          IntCell("int8", <<5>>)>>,
     <<IntCell("uint32", <<128, 0, 0, 1>>), BoolCell(TRUE)>>}

\* a row one cell short of the table
ShortRows == {<<IntCell("int64", Rep(8, 255))>>}

RECURSIVE SeqsOfLen(_, _)
SeqsOfLen(S, n) ==
    IF n = 0 THEN {<<>>}
    ELSE {Append(q, x) : q \in SeqsOfLen(S, n - 1), x \in S}

SeqsUpTo(S, n) == UNION {SeqsOfLen(S, k) : k \in 0..n}

IsUpdateType(t) == t \in {"UPDATE_ROWS_EVENTv1", "UPDATE_ROWS_EVENTv2"}

\* the binlog parser decodes the rows of an UPDATE event two at a time
WellFormed(t, rows) == IsUpdateType(t) => Len(rows) % 2 = 0

NoCall == [op |-> "none", k |-> 0, intersection |-> NoTable, out |-> Outcome("none", "", <<>>)]

\* mysql.Position{}: the empty file name (0, below every file) and offset 0
ZeroPosition == [Name |-> 0, Pos |-> 0]

WaitIdle ==
    /\ pc = "idle"
    /\ targetMasterPos = ZeroPosition
    /\ currentReplicatedMasterPos = ZeroPosition
    /\ try = 0
    /\ err = ""
    /\ waitErr = ""
    /\ replicaPos = ZeroPosition
    /\ polled = FALSE
    /\ marked = ZeroPosition

DMLInit(tables, types, rowSeqs) ==
    /\ table \in tables
    /\ \E t \in types, rows \in rowSeqs :
           /\ WellFormed(t, rows)
           /\ ev = [EventType |-> t, Rows |-> rows]
    /\ ev0 = ev
    /\ dispatched = FALSE
    /\ res = Returned("none", <<>>, "")
    /\ call = NoCall

Init ==
    /\ DMLInit(SourceTables, EventTypes \cup OtherEventTypes,
               SeqsUpTo(FullRows \cup ShortRows, MaxRows))
    /\ WaitIdle

-----------------------------------------------------------------------------
(* The translator's operations *)

\* the caller hands the event to NewBinlogDMLEvents
Dispatch ==
    /\ ~dispatched
    /\ LET r == NewBinlogDMLEvents(table, ev)
       IN  /\ ev' = r.ev
           /\ res' = r.ret
    /\ dispatched' = TRUE
    /\ UNCHANGED <<table, ev0, call>>
    /\ UNCHANGED <<waitVars, replicaPos>>

\* the caller asks a returned statement for its primary key; a call reads the
\* statement and writes nothing, so a run follows one call
CallPK ==
    /\ dispatched
    /\ call.op = "none"
    /\ res.list = "list"
    /\ \E k \in 1..Len(res.events) :
           call' = [op |-> "PK", k |-> k, intersection |-> NoTable,
                    out |-> PK(res.events[k])]
    /\ UNCHANGED <<table, ev0, ev, dispatched, res>>
    /\ UNCHANGED <<waitVars, replicaPos>>

\* the caller renders a returned statement against an intersection
CallAsSQLString ==
    /\ dispatched
    /\ call.op = "none"
    /\ res.list = "list"
    /\ \E k \in 1..Len(res.events), intersection \in Intersections :
           call' = [op |-> "AsSQLString", k |-> k, intersection |-> intersection,
                    out |-> AsSQLString(res.events[k], intersection)]
    /\ UNCHANGED <<table, ev0, ev, dispatched, res>>
    /\ UNCHANGED <<waitVars, replicaPos>>

Next == Dispatch \/ CallPK \/ CallAsSQLString

Spec == Init /\ [][Next]_vars

\* UPDATE events of up to MaxPairs before/after pairs over three distinct rows
PairRows ==
    {<<IntCell("int64", Rep(8, 255)),    NilCell>>,
     <<IntCell("int32", Rep(4, 255)),    StringCell(<<"o", "'", "b">>)>>,
     <<BytesCell(<<"1", "2">>),          IntCell("uint8", <<200>>)>>}

PairInit ==
    /\ DMLInit(SourceTables, {"UPDATE_ROWS_EVENTv1", "UPDATE_ROWS_EVENTv2"},
               SeqsUpTo(PairRows, 2 * MaxPairs))
    /\ WaitIdle

PairSpec == PairInit /\ [][Next]_vars

-----------------------------------------------------------------------------
(* Properties of the translator *)

\* the statement the last call was made on, and the images of the event it stands for
CalledStatement == res.events[call.k]

EventOld(k) ==
    CASE IsUpdateType(ev.EventType) -> ev.Rows[2 * k - 1]
      [] ev.EventType \in {"DELETE_ROWS_EVENTv1", "DELETE_ROWS_EVENTv2"} -> ev.Rows[k]
      [] OTHER -> NoRow

EventNew(k) ==
    CASE IsUpdateType(ev.EventType) -> ev.Rows[2 * k]
      [] ev.EventType \in {"WRITE_ROWS_EVENTv1", "WRITE_ROWS_EVENTv2"} -> ev.Rows[k]
      [] OTHER -> NoRow

Rendered == call.op = "AsSQLString" /\ call.out.kind = "ok"

EndsWith(text, suffix) ==
    /\ Len(suffix) <= Len(text)
    /\ SubSeq(text, Len(text) - Len(suffix) + 1, Len(text)) = suffix

RECURSIVE JoinWith(_, _)
JoinWith(sep, elems) ==
    IF Len(elems) = 0 THEN <<>>
    ELSE IF Len(elems) = 1 THEN elems[1]
    ELSE elems[1] \o sep \o JoinWith(sep, Tail(elems))

Literal(c) == appendEscapedValue(<<>>, c)

Project(row, idx) == [i \in 1..Len(idx) |-> row[idx[i]]]

QuotedNames(tbl, idx) == [i \in 1..Len(idx) |-> quoteField(tbl.Columns[idx[i]].Name)]

\* the grammar of the three statements over the columns idx of the source table
GrammarWhere(cols, old) ==
    JoinWith(TxtAnd, [i \in 1..Len(cols) |-> WhereFragment(<<>>, cols[i], old[i])])

GrammarQuery(kind, tbl, intersection, idx, old, new) ==
    LET cols  == QuotedNames(tbl, idx)
        qname == <<Backtick>> \o intersection.Schema \o <<Backtick, ".", Backtick>>
                 \o intersection.Name \o <<Backtick>>
    IN  CASE kind = "insert" ->
                 TxtInsert \o qname \o <<" ", "(">> \o JoinWith(<<",">>, cols) \o <<")">>
                 \o TxtValues
                 \o JoinWith(<<",">>, [i \in 1..Len(idx) |-> Literal(new[idx[i]])])
                 \o <<")">>
          [] kind = "update" ->
                 TxtUpdate \o qname \o TxtSet
                 \o JoinWith(<<",">>, [i \in 1..Len(idx) |->
                                          cols[i] \o <<"=">> \o Literal(new[idx[i]])])
                 \o TxtWhere \o GrammarWhere(cols, Project(old, idx))
          [] OTHER ->
                 TxtDelete \o qname \o TxtWhere \o GrammarWhere(cols, Project(old, idx))

\* C3: an UPDATE event of 2N rows yields exactly N statements, in pair order,
\* statement k holding row 2k as its old and row 2k+1 as its new image
C3_UpdatePairs ==
    (dispatched /\ IsUpdateType(ev.EventType)) =>
        /\ res.list = "list"
        /\ res.err = ""
        /\ 2 * Len(res.events) = Len(ev.Rows)
        /\ \A k \in 0..(Len(res.events) - 1) :
               /\ res.events[k + 1].kind = "update"
               /\ OldValues(res.events[k + 1]) = ev.Rows[2 * k + 1]
               /\ NewValues(res.events[k + 1]) = ev.Rows[2 * k + 2]

C3_Witness ==
    /\ dispatched
    /\ IsUpdateType(ev.EventType)
    /\ Len(res.events) = 2
    /\ Cardinality(Range(ev.Rows)) >= 3

\* the cell PK() reads: column pk_columns[0] of the new image, or of the old image
\* for a DELETE
CalledPKCell ==
    LET e     == CalledStatement
        image == IF e.kind = "delete" THEN OldValues(e) ELSE NewValues(e)
    IN  image[e.table.PKColumns[1] + 1]

AllDigits(text) == Len(text) > 0 /\ \A i \in 1..Len(text) : IsDigit(text[i])

\* a base-10 numeral with no sign and no leading zero
IsCanonicalDecimal(text) == AllDigits(text) /\ (Len(text) = 1 \/ text[1] # "0")

RECURSIVE StripLeadingZeros(_)
StripLeadingZeros(text) ==
    IF Len(text) > 1 /\ Head(text) = "0" THEN StripLeadingZeros(Tail(text)) ELSE text

\* C4: PK() widens an unsigned cell, widens a non-negative signed cell, returns an
\* error for a negative one, parses a byte buffer in base 10 or returns an error, and
\* never aborts
C4_PKCoercion ==
    call.op = "PK" =>
        LET cell == CalledPKCell
            out  == call.out
        IN  /\ cell.t \in UnsignedTypes =>
                   out.kind = "ok" /\ out.v = ZeroExtend(cell.b, 8)
            /\ (cell.t \in SignedTypes /\ ~IsNegative(cell.b)) =>
                   out.kind = "ok" /\ out.v = SignExtend(cell.b, 8)
            /\ (cell.t \in SignedTypes /\ IsNegative(cell.b)) => out.kind = "err"
            /\ (cell.t = "[]byte" /\ AllDigits(cell.s)) =>
                   out.kind = "ok" /\ FormatUint(out.v) = StripLeadingZeros(cell.s)
            /\ (cell.t = "[]byte" /\ ~AllDigits(cell.s)) => out.kind = "err"
            /\ cell.t \in UnsignedTypes \cup SignedTypes \cup {"[]byte"} =>
                   out.kind \in {"ok", "err"}

\* C5: when the dispatch has returned the statements (and ever after: no call
\* changes the event), a signed cell v of width W in a column flagged unsigned renders
\* as the base-10 numeral of v mod 2^W, with no sign, and the cells of the other
\* columns are as they arrived; and AsSQLString renders the event's cells
C5_UnsignedRendering ==
    (dispatched /\ res.list = "list") =>
        /\ call.op = "none" =>
            \A r \in 1..Len(ev.Rows) : \A i \in 1..Len(table.Columns) :
               LET arrived == ev0.Rows[r][i]
               IN  /\ ~table.Columns[i].IsUnsigned => ev.Rows[r][i] = arrived
                   /\ (table.Columns[i].IsUnsigned /\ arrived.t \in SignedTypes) =>
                          LET text == Literal(ev.Rows[r][i])
                          IN  /\ IsCanonicalDecimal(text)
                              /\ ParseDigits(text, 1, Rep(8, 0))
                                     = <<ZeroExtend(arrived.b, 8)>>
        /\ Rendered =>
               call.out.v = GrammarQuery(CalledStatement.kind, table, call.intersection,
                                         intersectedColumns(table, call.intersection, 1),
                                         EventOld(call.k), EventNew(call.k))

\* scenario: id BIGINT UNSIGNED, the cell int64(-1), renders 18446744073709551615
C5_Witness ==
    /\ Rendered
    /\ CalledStatement.kind = "insert"
    /\ table.Columns[1].IsUnsigned
    /\ ev0.Rows[call.k][1] = IntCell("int64", Rep(8, 255))
    /\ EndsWith(call.out.v,
                TxtValues \o <<"1", "8", "4", "4", "6", "7", "4", "4", "0", "7",
                               "3", "7", "0", "9", "5", "5", "1", "6", "1", "5">>
                \o <<",">> \o TxtNull \o <<")">>)

\* the columns and the old-image cells the called statement renders in its WHERE
CalledColumns ==
    QuotedNames(CalledStatement.table,
                intersectedColumns(CalledStatement.table, call.intersection, 1))

CalledOld ==
    Project(OldValues(CalledStatement),
            intersectedColumns(CalledStatement.table, call.intersection, 1))

\* the WHERE clause in which exactly the cells flagged in nulls read "col IS NULL"
WhereClause(nulls, cols, old) ==
    TxtWhere \o JoinWith(TxtAnd, [i \in 1..Len(cols) |->
        cols[i] \o (IF nulls[i] THEN TxtIsNull ELSE <<"=">> \o Literal(old[i]))])

AbsentOrEmptyBuffer(c) == c.t = "nil" \/ (c.t = "[]byte" /\ Len(c.s) = 0)

AbsentOrNilBuffer(c) == c.t = "nil" \/ (c.t = "[]byte" /\ c.isnil)

\* C6 as stated: in the WHERE clause of an UPDATE or DELETE every old-image cell that
\* is absent or an empty byte buffer reads "col IS NULL"
C6_NullAsStated ==
    (Rendered /\ CalledStatement.kind \in {"update", "delete"}) =>
        EndsWith(call.out.v,
                 WhereClause([i \in 1..Len(CalledOld) |-> AbsentOrEmptyBuffer(CalledOld[i])],
                             CalledColumns, CalledOld))

\* C6 amended: every old-image cell that is absent or a nil byte buffer reads
\* "col IS NULL" (both alike); an empty buffer that is not nil reads col=_binary''
C6_NullInWhere ==
    (Rendered /\ CalledStatement.kind \in {"update", "delete"}) =>
        /\ EndsWith(call.out.v,
                    WhereClause([i \in 1..Len(CalledOld) |-> AbsentOrNilBuffer(CalledOld[i])],
                                CalledColumns, CalledOld))
        /\ Literal(BytesCell(<<>>)) = TxtBinary \o <<"'">>

C6_Witness ==
    /\ Rendered
    /\ CalledStatement.kind \in {"update", "delete"}
    /\ \E i \in 1..Len(CalledOld) : CalledOld[i] = NilBytesCell
    /\ \E r \in 1..Len(ev.Rows) : ev.Rows[r][2] = NilCell

\* the source columns whose names appear in the intersection, in source order
MatchedSet(tbl, intersection) ==
    {i \in 1..Len(tbl.Columns) :
        \E j \in 1..Len(intersection.Columns) :
            intersection.Columns[j].Name = tbl.Columns[i].Name}

Ascending(S) ==
    CHOOSE q \in [1..Cardinality(S) -> S] :
        \A a, b \in 1..Cardinality(S) : a < b => q[a] < q[b]

\* C7: AsSQLString renders, for the table named by the intersection, exactly the
\* source columns whose names the intersection holds, once each, in source order,
\* with the cells at those source indices
C7_IntersectionProjection ==
    (call.op = "AsSQLString" /\ Len(call.intersection.Columns) > 0) =>
        LET e == CalledStatement
        IN  /\ call.out.kind = "ok"
            /\ call.out.v = GrammarQuery(e.kind, e.table, call.intersection,
                                         Ascending(MatchedSet(e.table, call.intersection)),
                                         OldValues(e), NewValues(e))

C7_Witness ==
    /\ Rendered
    /\ CalledStatement.kind = "update"
    /\ call.intersection.Columns[1].Name = ColName
    /\ Cardinality(MatchedSet(table, call.intersection)) = 2

\* some row's cell count differs from the column count, or the tag is none of the six
Rejectable ==
    \/ \E r \in 1..Len(ev0.Rows) : Len(ev0.Rows[r]) # Len(table.Columns)
    \/ ev0.EventType \notin EventTypes

\* C8: the dispatch returns an error and no list when a row has the wrong width or
\* the tag is unknown, and a list and no error otherwise
C8_AllOrNothing ==
    dispatched =>
        /\ Rejectable => (res.list = "nil" /\ res.events = <<>> /\ res.err # "")
        /\ ~Rejectable => (res.list = "list" /\ res.err = "")
        /\ res.err # "" => res.list = "nil"

C8_Witness ==
    /\ dispatched
    /\ res.err = "width"
    /\ Len(ev0.Rows) = 2
    /\ Len(ev0.Rows[1]) = Len(table.Columns)

\* C9 as stated: when the dispatch returns an error the event is as it arrived
C9_EventUntouchedOnError ==
    (dispatched /\ res.err # "") => ev = ev0

\* the first row of the wrong width (one past the last row when there is none)
FirstBadRow ==
    CHOOSE r \in 1..(Len(ev0.Rows) + 1) :
        /\ r <= Len(ev0.Rows) => Len(ev0.Rows[r]) # Len(table.Columns)
        /\ \A q \in 1..(r - 1) : Len(ev0.Rows[q]) = Len(table.Columns)

Retagged(c) == IF c.t \in SignedTypes THEN IntCell(UnsignedOf(c.t), c.b) ELSE c

\* C9 amended: when the dispatch returns an error, the first row of the wrong width
\* and the rows after it are as they arrived; in every row before it (in every row,
\* for an unknown tag) the signed cells of the unsigned columns have become unsigned
\* cells of the same width and bits, and no other cell has changed
C9_RowsBeforeErrorRewritten ==
    (dispatched /\ res.err # "") =>
        /\ ev.EventType = ev0.EventType
        /\ Len(ev.Rows) = Len(ev0.Rows)
        /\ \A r \in 1..Len(ev0.Rows) :
               IF r >= FirstBadRow THEN ev.Rows[r] = ev0.Rows[r]
               ELSE ev.Rows[r] = [i \in 1..Len(table.Columns) |->
                        IF table.Columns[i].IsUnsigned
                        THEN Retagged(ev0.Rows[r][i]) ELSE ev0.Rows[r][i]]

C9_Witness ==
    /\ dispatched
    /\ res.err = "width"
    /\ FirstBadRow = 2
    /\ ev.Rows[1] # ev0.Rows[1]
    /\ ev.Rows[2] = ev0.Rows[2]

-----------------------------------------------------------------------------
(* The replica catch-up coordinator *)

\* the retry wrappers are called with 100 attempts
MaxRetries == 100

\* binlog positions: the file by its number (names of one length order as their
\* numbers do) and the offset
Positions == [Name : 1..MaxFile, Pos : 0..MaxOffset]

\* the errors an SQL read returns
Errors == {"bad connection", "deadlock"}

Compare(p, o) ==
    IF p.Name > o.Name THEN 1
    ELSE IF p.Name < o.Name THEN -1
    ELSE IF p.Pos > o.Pos THEN 1
    ELSE IF p.Pos < o.Pos THEN -1
    ELSE 0

\* a mutant: the comparison turned round
CaughtUpReversed(current, target) == Compare(target, current) >= 0

\* a mutant: the replica must be strictly past the target
CaughtUpStrict(current, target) == Compare(current, target) > 0

\* IsCaughtUp's test of the position it read
CaughtUp(current, target) == Compare(current, target) >= 0

\* WithRetries after an attempt that returned e, tried attempts before it: the
\* wrapper returns nil, returns e (no attempt is left), or sleeps and tries again
RetryOutcome(tried, e) ==
    IF e = "" THEN "nil"
    ELSE IF tried + 1 >= MaxRetries THEN "exhausted"
    ELSE "again"

\* what one SQL read returns: a position and a nil error, or the zero position and
\* an error
Reads(positions) ==
    {[pos |-> p, err |-> ""] : p \in positions}
        \cup {[pos |-> ZeroPosition, err |-> e] : e \in Errors}

\* Wait() after MarkTargetMasterPosition returned e
AfterMark(e) ==
    IF e # "" THEN [pc |-> "err", waitErr |-> e] ELSE [pc |-> "polling", waitErr |-> ""]

\* a mutant: the error of IsCaughtUp is taken for "not caught up"
AfterPollErrorIgnored(isCaughtUp, e) ==
    IF isCaughtUp THEN [pc |-> "done", waitErr |-> ""]
    ELSE [pc |-> "sleeping", waitErr |-> ""]

\* Wait() after IsCaughtUp returned (isCaughtUp, e)
AfterPoll(isCaughtUp, e) ==
    IF e # "" THEN [pc |-> "err", waitErr |-> e]
    ELSE IF isCaughtUp THEN [pc |-> "done", waitErr |-> ""]
    ELSE [pc |-> "sleeping", waitErr |-> ""]

DMLIdle ==
    /\ table = NoTable
    /\ ev = [EventType |-> "WRITE_ROWS_EVENTv1", Rows |-> <<>>]
    /\ ev0 = ev
    /\ dispatched = FALSE
    /\ res = Returned("none", <<>>, "")
    /\ call = NoCall

WaitInit ==
    /\ DMLIdle
    /\ pc = "idle"
    /\ targetMasterPos = ZeroPosition
    /\ currentReplicatedMasterPos = ZeroPosition
    /\ try = 0
    /\ err = ""
    /\ waitErr = ""
    /\ replicaPos \in Positions
    /\ polled = FALSE
    /\ marked = ZeroPosition

\* the caller calls Wait(), which enters MarkTargetMasterPosition
CallWait ==
    /\ pc = "idle"
    /\ pc' = "targeting"
    /\ try' = 0
    /\ err' = ""
    /\ UNCHANGED <<targetMasterPos, currentReplicatedMasterPos, waitErr, polled, marked>>
    /\ UNCHANGED <<dmlVars, replicaPos>>

\* one attempt of the master read, and what Wait() does when the wrapper returns
MarkAttempt ==
    /\ pc = "targeting"
    /\ \E r \in Reads(Positions) :
           LET outcome == RetryOutcome(try, r.err)
           IN  /\ targetMasterPos' = r.pos
               /\ marked' = IF r.err = "" THEN r.pos ELSE marked
               /\ err' = r.err
               /\ IF outcome = "again"
                  THEN /\ try' = try + 1
                       /\ UNCHANGED <<pc, waitErr>>
                  ELSE /\ try' = IF outcome = "nil" THEN 0 ELSE try + 1
                       /\ pc' = AfterMark(r.err).pc
                       /\ waitErr' = AfterMark(r.err).waitErr
    /\ UNCHANGED <<currentReplicatedMasterPos, polled>>
    /\ UNCHANGED <<dmlVars, replicaPos>>

\* one attempt of the replica read of an IsCaughtUp call, and what Wait() does when
\* the call returns
PollAttempt ==
    /\ pc = "polling"
    /\ \E r \in Reads({replicaPos}) :
           LET outcome == RetryOutcome(try, r.err)
           IN  /\ currentReplicatedMasterPos' = r.pos
               /\ err' = r.err
               /\ IF outcome = "again"
                  THEN /\ try' = try + 1
                       /\ UNCHANGED <<pc, waitErr>>
                  ELSE LET after == AfterPoll(r.err = "" /\ CaughtUp(r.pos, targetMasterPos),
                                              r.err)
                       IN  /\ try' = IF outcome = "nil" THEN 0 ELSE try + 1
                           /\ pc' = after.pc
                           /\ waitErr' = after.waitErr
    /\ polled' = TRUE
    /\ UNCHANGED <<targetMasterPos, marked>>
    /\ UNCHANGED <<dmlVars, replicaPos>>

\* time.Sleep between two polls; the next IsCaughtUp call starts with a fresh local
Sleep ==
    /\ pc = "sleeping"
    /\ pc' = "polling"
    /\ currentReplicatedMasterPos' = ZeroPosition
    /\ try' = 0
    /\ err' = ""
    /\ UNCHANGED <<targetMasterPos, waitErr, polled, marked>>
    /\ UNCHANGED <<dmlVars, replicaPos>>

\* the environment: replication (or anything else) rewrites the heartbeat row
ReplicaMoves ==
    /\ \E p \in Positions \ {replicaPos} : replicaPos' = p
    /\ UNCHANGED waitVars
    /\ UNCHANGED dmlVars

WaitStep == CallWait \/ MarkAttempt \/ PollAttempt \/ Sleep

WaitNext == WaitStep \/ ReplicaMoves

WaitSpec == WaitInit /\ [][WaitNext]_vars

\* the calling goroutine keeps running: a read returns, a sleep ends
WaitLiveSpec == WaitInit /\ [][WaitNext]_vars /\ WF_vars(WaitStep)

-----------------------------------------------------------------------------
(* Properties of the coordinator *)

\* a step in which an IsCaughtUp call returns with a position read
PollObserved == pc = "polling" /\ pc' \in {"done", "sleeping"}

\* no step of a poll, of a sleep or after the return changes the target
TargetKept == pc \in {"polling", "sleeping", "done"} => (targetMasterPos' = targetMasterPos)

\* a poll that reads a position returns to the caller exactly when the target is
\* reached
ReturnsAtFirstReached ==
    PollObserved =>
        /\ currentReplicatedMasterPos' = replicaPos
        /\ (pc' = "done") <=> (Compare(replicaPos, targetMasterPos) >= 0)

\* nothing of the coordinator changes after Wait() has returned
Terminal == pc \in {"done", "err"} => UNCHANGED waitVars

\* C1: Wait() returns nil only after a poll that observed the replica at or past the
\* target marked by this Wait(); the mark precedes every poll, no poll changes the
\* target, and Wait() returns at the first poll that observes the target reached
C1_ReturnsOnlyWhenCaughtUp ==
    /\ [](pc = "done" =>
              /\ waitErr = ""
              /\ polled
              /\ targetMasterPos = marked
              /\ Compare(currentReplicatedMasterPos, targetMasterPos) >= 0)
    /\ [](polled => (marked \in Positions /\ targetMasterPos = marked))
    /\ [][TargetKept]_vars
    /\ [][ReturnsAtFirstReached]_vars
    /\ [][pc = "done" => UNCHANGED waitVars]_vars

C1_Witness ==
    /\ pc = "done"
    /\ marked = [Name |-> MaxFile, Pos |-> 0]
    /\ currentReplicatedMasterPos = [Name |-> MaxFile, Pos |-> 0]

\* the 100th failed attempt of the master read ends Wait() with its error, unpolled
MasterExhaustion ==
    (pc = "targeting" /\ try' = MaxRetries) =>
        (pc' = "err" /\ ~polled' /\ waitErr' = err' /\ err' \in Errors)

\* the 100th failed attempt of a replica read ends Wait() with its error
ReplicaExhaustion ==
    (pc = "polling" /\ try' = MaxRetries) =>
        (pc' = "err" /\ waitErr' = err' /\ err' \in Errors)

\* C2: an exhausted master read ends Wait() with the last error and no poll; an
\* exhausted replica read ends it with the last error; no wrapper makes more than
\* 100 attempts; nothing follows err or done
C2_ExhaustionAborts ==
    /\ [](try <= MaxRetries /\ (pc \in {"targeting", "polling"} => try < MaxRetries))
    /\ [](pc = "err" => (try = MaxRetries /\ waitErr = err /\ err \in Errors))
    /\ [][MasterExhaustion]_vars
    /\ [][ReplicaExhaustion]_vars
    /\ [][Terminal]_vars

C2_Witness ==
    /\ pc = "err"
    /\ polled
    /\ try = MaxRetries
    /\ waitErr = "deadlock"

\* a failed read short of the last attempt leaves the wrapper trying
TransientAbsorbed ==
    (pc \in {"targeting", "polling"} /\ err' # "" /\ try' < MaxRetries) => (pc' = pc)

\* a poll that found the replica behind is followed by another poll
PollsAgain == (pc = "sleeping" /\ pc' # pc) => (pc' = "polling")

\* C10: under fair scheduling, if no wrapper is exhausted and the replica's position
\* is in the end always at or past the target, Wait() returns nil; a failed read
\* short of the 100th keeps the wrapper trying, and a sleep leads to the next poll
C10_EventuallyDone ==
    /\ (<>[](Compare(replicaPos, targetMasterPos) >= 0) /\ [](pc # "err"))
           => <>(pc = "done" /\ waitErr = "")
    /\ [][TransientAbsorbed]_vars
    /\ [][PollsAgain]_vars

C10_Witness ==
    /\ pc = "done"
    /\ waitErr = ""
    /\ Compare(replicaPos, targetMasterPos) >= 0

====
